---- MODULE Spec2Model ----
(***************************************************************************)
(* The upstream access gateway of GameXplorer (src/app/api/server/igdb.ts): *)
(* the token-bucket / in-flight admission controller, the Twitch token      *)
(* cache and the retry loop of igdb().                                      *)
(*                                                                          *)
(* Execution model: one JavaScript event loop.  Every action below is one   *)
(* run-to-completion step of a logical igdb() call, from one suspension     *)
(* point (await) to the next.  The logical calls are interchangeable, so    *)
(* the set of live calls is kept as a bag of their local states.            *)
(*                                                                          *)
(* Time is Date.now() in milliseconds.  A setTimeout timer is kept as the   *)
(* time that still has to pass before its callback may run (rem); the       *)
(* callback may run arbitrarily late, never early.                          *)
(*                                                                          *)
(* The bucket content is kept in thousandths of a token (the source holds a *)
(* float): elapsedMs / 1000 * RATE_LIMIT tokens are elapsedMs * RATE_LIMIT  *)
(* thousandths, so all arithmetic is exact.                                 *)
(***************************************************************************)
EXTENDS Bags, FiniteSets, Integers, Sequences, TLC

VARIABLES
    now,          \* Date.now()
    tokens,       \* igdb.ts `tokens`, in thousandths of a token
    lastRefill,   \* igdb.ts `lastRefill`
    inFlight,     \* igdb.ts `inFlight`
    tokenCache,   \* igdb.ts `tokenCache`: NoToken or [token, expiresAt]
    credentials,  \* CLIENT_ID and CLIENT_SECRET are both set
    calls,        \* bag of the local states of the igdb() calls issued so far
    toIssue,      \* igdb() calls the callers may still issue
    admitLog,     \* history: the times at which waitForSlot admitted a call
    trendingCache,\* route.ts `trendingCache`: cache key -> entry or NoEntry
    responses,    \* bag of the requests POST has answered, with the answers
    toPost,       \* requests the clients may still send
    image,        \* the last application of formatIGDBImage, or NoImage
    search        \* the last query built by the search branch, or NoSearch

vars == <<now, tokens, lastRefill, inFlight, tokenCache, credentials,
          calls, toIssue, admitLog, trendingCache, responses, toPost,
          image, search>>

\* the strings the handler has built
textVars == <<image, search>>

\* the state of the route handler's module
routeVars == <<trendingCache, responses, toPost, textVars>>

-----------------------------------------------------------------------------
(* Bounds of the model *)

\* igdb() calls issued in one behaviour of Spec
NumCalls == 1
\* clock ticks (of 1000 ms) of Spec
MaxTicks == 4
\* igdb() calls issued in one behaviour of SpecAdmit
AdmitCalls == 9
\* clock ticks (of 250 ms) of SpecAdmit
AdmitTicks == 5
\* igdb() calls issued in one behaviour of SpecRate
RateCalls == 5
\* clock ticks (of 100 ms) of SpecRate
RateTicks == 5
\* igdb() calls issued in one behaviour of SpecToken
TokenCalls == 3
\* clock ticks (of 30 s) of SpecToken
TokenTicks == 4
\* requests sent to POST in one behaviour of SpecInput
InputReqs == 1
\* requests sent to POST in one behaviour of SpecRecommend
RecommendReqs == 1
\* requests sent to POST in one behaviour of SpecErrors
ErrorReqs == 1
\* clock ticks (of 2000 ms) of SpecErrors
ErrorTicks == 3
\* requests sent to POST in one behaviour of SpecTrending
TrendingReqs == 3
\* clock ticks (of 30 s) of SpecTrending
TrendingTicks == 3
\* requests sent to POST in one behaviour of SpecCache
CacheReqs == 2
\* clock ticks (of 30 s) of SpecCache
CacheTicks == 4
\* igdb() calls issued in one behaviour of SpecLive
LiveCalls == 9
\* applications of formatIGDBImage, each to the result of the one before, in
\* one behaviour of SpecImage
ImageRuns == 2
\* characters of the longest search term of SpecSearch
MaxTerm == 4

(* Program constants *)

RATE_LIMIT == 4
CAPACITY == RATE_LIMIT
MAX_INFLIGHT == 8
\* elapsedMs / 1000: milliseconds per second, thousandths per token
Milli == 1000
\* setTimeout(r, 100) of waitForSlot
PollMs == 100
maxRetries == 3
\* tokenCache.expiresAt - 60_000
RefreshMarginMs == 60000
\* waitMs bases of the retry loop
RateLimitBaseMs == 500
ServerErrorBaseMs == 500
CatchBaseMs == 300

NoToken == [token |-> "none", expiresAt |-> -1]
NaN == -1

Min(a, b) == IF a <= b THEN a ELSE b
Max(a, b) == IF a >= b THEN a ELSE b

RECURSIVE Pow2(_)
Pow2(n) == IF n <= 0 THEN 1 ELSE 2 * Pow2(n - 1)

-----------------------------------------------------------------------------
(* Admission controller *)

\* refillTokens() without `lastRefill = now`: the same interval is credited
\* at every call
refillTokensNoStamp(tk, lr, t) ==
    LET elapsedMs == t - lr
        add == elapsedMs * RATE_LIMIT
    IN  IF elapsedMs <= 0 THEN [tokens |-> tk, lastRefill |-> lr]
        ELSE IF add > 0
             THEN [tokens |-> Min(CAPACITY * Milli, tk + add), lastRefill |-> lr]
             ELSE [tokens |-> tk, lastRefill |-> lr]

\* refillTokens(): the bucket after a refill at time t
refillTokens(tk, lr, t) ==
    LET elapsedMs == t - lr
        add == elapsedMs * RATE_LIMIT
    IN  IF elapsedMs <= 0 THEN [tokens |-> tk, lastRefill |-> lr]
        ELSE IF add > 0
             THEN [tokens |-> Min(CAPACITY * Milli, tk + add), lastRefill |-> t]
             ELSE [tokens |-> tk, lastRefill |-> lr]

\* the admission test without the in-flight ceiling
SlotFreeNoCeiling(tk, inF) == tk >= 1 * Milli

\* the admission test with `tokens > 0` for `tokens >= 1`
SlotFreeAnyToken(tk, inF) == tk > 0 /\ inF < MAX_INFLIGHT

\* the admission test of waitForSlot
SlotFree(tk, inF) == tk >= 1 * Milli /\ inF < MAX_INFLIGHT

\* one iteration of the loop of waitForSlot without `tokens -= 1`
waitForSlotNoDebit(tk, lr, inF, t) ==
    LET b == refillTokens(tk, lr, t)
    IN  [tokens |-> b.tokens, lastRefill |-> b.lastRefill,
         inFlight |-> IF SlotFree(b.tokens, inF) THEN inF + 1 ELSE inF,
         admitted |-> SlotFree(b.tokens, inF)]

\* one iteration of the loop of waitForSlot at time t
waitForSlot(tk, lr, inF, t) ==
    LET b == refillTokens(tk, lr, t)
    IN  IF SlotFree(b.tokens, inF)
        THEN [tokens |-> b.tokens - 1 * Milli, lastRefill |-> b.lastRefill,
              inFlight |-> inF + 1, admitted |-> TRUE]
        ELSE [tokens |-> b.tokens, lastRefill |-> b.lastRefill,
              inFlight |-> inF, admitted |-> FALSE]

\* releaseSlot() taking two from the count
releaseSlotTwice(inF) == Max(0, inF - 2)

\* releaseSlot() leaving the count as it is
releaseSlotKeep(inF) == inF

\* releaseSlot()
releaseSlot(inF) == Max(0, inF - 1)

\* the time after which a refill fills the bucket whatever it held:
\* (elapsedMs / 1000) * RATE_LIMIT >= CAPACITY
FullRefillMs == (CAPACITY * Milli) \div RATE_LIMIT

-----------------------------------------------------------------------------
(* What the network can answer *)

\* res.headers.get("retry-after"): null, or the header's text as characters
Header(chars) == [present |-> TRUE, text |-> chars]
NoRetryAfter == [present |-> FALSE, text |-> <<>>]

Digits == {"0", "1", "2", "3", "4", "5", "6", "7", "8", "9"}
DigitValue(c) ==
    CASE c = "0" -> 0 [] c = "1" -> 1 [] c = "2" -> 2 [] c = "3" -> 3
      [] c = "4" -> 4 [] c = "5" -> 5 [] c = "6" -> 6 [] c = "7" -> 7
      [] c = "8" -> 8 [] c = "9" -> 9

RECURSIVE DecimalValue(_)
DecimalValue(chars) ==
    IF chars = <<>> THEN 0
    ELSE 10 * DecimalValue(SubSeq(chars, 1, Len(chars) - 1))
         + DigitValue(chars[Len(chars)])

\* Number(text) of a header text: its decimal value, NaN when it is no number
Number(chars) ==
    IF chars = <<>> THEN 0
    ELSE IF \A i \in 1..Len(chars) : chars[i] \in Digits
         THEN DecimalValue(chars)
         ELSE NaN

\* `retryAfter ? ... : ...`: null and the empty string are falsy
Truthy(h) == h.present /\ h.text # <<>>

\* JSON values, as far as the handlers look into them: a number (whole or
\* not), a string, an object with an `id` member, null, or undefined (a
\* member that is not there)
JNum(n) == [t |-> "number", n |-> n, whole |-> TRUE]
JFraction(n) == [t |-> "number", n |-> n, whole |-> FALSE]
JString == [t |-> "string", n |-> 0, whole |-> FALSE]
JObject(id) == [t |-> "object", n |-> id, whole |-> FALSE]
JNull == [t |-> "null", n |-> 0, whole |-> FALSE]
JUndefined == [t |-> "undefined", n |-> 0, whole |-> FALSE]

\* a member that holds an array of JSON values, or another value
JArray(items) == [array |-> TRUE, items |-> items]
NoArray == [array |-> FALSE, items |-> <<>>]

\* one element of an upstream answer: a game (id, similar_games, genres) or
\* a popularity primitive (game_id)
Game(id, similar_games, genres) ==
    [id |-> JNum(id), game_id |-> JUndefined,
     similar_games |-> similar_games, genres |-> genres]
Primitive(game_id) ==
    [id |-> JUndefined, game_id |-> game_id,
     similar_games |-> NoArray, genres |-> NoArray]

\* an HTTP response of the upstream (data: the parsed body of a 2xx), or a
\* fetch() that threw
Response(status, retryAfter, json) ==
    [kind |-> "response", status |-> status, retryAfter |-> retryAfter,
     json |-> json, data |-> <<>>]
Payload(data) ==
    [kind |-> "response", status |-> 200, retryAfter |-> NoRetryAfter,
     json |-> TRUE, data |-> data]
NetworkError ==
    [kind |-> "network", status |-> 0, retryAfter |-> NoRetryAfter,
     json |-> FALSE, data |-> <<>>]
NoOutcome ==
    [kind |-> "none", status |-> 0, retryAfter |-> NoRetryAfter,
     json |-> FALSE, data |-> <<>>]

\* res.ok
Ok(status) == status >= 200 /\ status <= 299

IsFault(o) == ~(o.kind = "response" /\ Ok(o.status) /\ o.json)

-----------------------------------------------------------------------------
(* The retry loop of igdb(): what one attempt's outcome leads to *)

\* new Error(`${msg} ${status}`); status 0 when the message names none
Error(msg, status) == [msg |-> msg, status |-> status]
NoError == Error("", 0)

Return == [act |-> "return", waitMs |-> 0, via |-> "ok", err |-> NoError]
Sleep(waitMs, via) ==
    [act |-> "sleep", waitMs |-> waitMs, via |-> via, err |-> NoError]
Throw(err) == [act |-> "throw", waitMs |-> 0, via |-> "catch", err |-> err]

\* catch (err) with `attempt <= maxRetries + 1`
CatchOffByOne(attempt, err) ==
    IF attempt <= maxRetries + 1
    THEN Sleep(CatchBaseMs * Pow2(attempt - 1), "catch")
    ELSE Throw(err)

\* catch (err) { ... } of the loop body
Catch(attempt, err) ==
    IF attempt <= maxRetries
    THEN Sleep(CatchBaseMs * Pow2(attempt - 1), "catch")
    ELSE Throw(err)

\* waitMs of the 429 branch growing linearly with the attempt
RateLimitWaitMsLinear(attempt, retryAfter) ==
    IF Truthy(retryAfter)
    THEN (IF Number(retryAfter.text) = NaN THEN NaN
          ELSE Number(retryAfter.text) * 1000)
    ELSE RateLimitBaseMs * attempt

\* waitMs of the 429 branch taking retry-after as milliseconds
RateLimitWaitMsUnscaled(attempt, retryAfter) ==
    IF Truthy(retryAfter)
    THEN Number(retryAfter.text)
    ELSE RateLimitBaseMs * Pow2(attempt - 1)

\* waitMs of the 429 branch
RateLimitWaitMs(attempt, retryAfter) ==
    IF Truthy(retryAfter)
    THEN (IF Number(retryAfter.text) = NaN THEN NaN
          ELSE Number(retryAfter.text) * 1000)
    ELSE RateLimitBaseMs * Pow2(attempt - 1)

\* the 429 branch
OnRateLimited(attempt, o) ==
    IF attempt <= maxRetries
    THEN Sleep(RateLimitWaitMs(attempt, o.retryAfter), "429")
    ELSE Catch(attempt, Error("IGDB 429 Too Many Requests", 429))

\* the 5xx branch with the base of the catch block
OnOtherStatusCatchBase(attempt, o) ==
    IF o.status >= 500 /\ o.status < 600 /\ attempt <= maxRetries
    THEN Sleep(CatchBaseMs * Pow2(attempt - 1), "5xx")
    ELSE Catch(attempt, Error("IGDB error", o.status))

\* the branches after the 429 branch: 5xx, then the non-retryable error
OnOtherStatus(attempt, o) ==
    IF o.status >= 500 /\ o.status < 600 /\ attempt <= maxRetries
    THEN Sleep(ServerErrorBaseMs * Pow2(attempt - 1), "5xx")
    ELSE Catch(attempt, Error("IGDB error", o.status))

\* the body of the loop once fetch() has settled
OnAttempt(attempt, o) ==
    IF o.kind = "network" THEN Catch(attempt, Error("fetch failed", 0))
    ELSE IF Ok(o.status)
         THEN (IF o.json THEN Return
               ELSE Catch(attempt, Error("invalid json", 0)))
    ELSE IF o.status = 429 THEN OnRateLimited(attempt, o)
    ELSE OnOtherStatus(attempt, o)

\* setTimeout(r, waitMs): Node runs a timer whose delay is no number >= 1
\* after 1 ms
TimerDelay(waitMs) == IF waitMs = NaN \/ waitMs < 1 THEN 1 ELSE waitMs

-----------------------------------------------------------------------------
(* The route handler POST of api/igdb/query: its pure parts *)

\* const TRENDING_TTL = 60_000
TRENDING_TTL == 60000
\* the schemas' limits: limit 1..50 with default 12, offset >= 0 with
\* default 0, 1..50 ids
LimitMin == 1
LimitMax == 50
LimitDefault == 12
OffsetMin == 0
OffsetDefault == 0
IdsMin == 1
IdsMax == 50

Range(xs) == {xs[i] : i \in 1..Len(xs)}

\* xs.slice(0, n)
Take(xs, n) == SubSeq(xs, 1, Min(n, Len(xs)))

\* Array.from(new Set(xs)): the first occurrence of every element, in order
RECURSIVE Dedup(_)
Dedup(xs) ==
    IF xs = <<>> THEN <<>>
    ELSE LET front == Dedup(SubSeq(xs, 1, Len(xs) - 1))
             x == xs[Len(xs)]
         IN  IF x \in Range(front) THEN front ELSE Append(front, x)

\* Number(v): NaN where v is no number (null gives 0)
JNaN == [t |-> "nan", n |-> 0, whole |-> FALSE]
ToNumber(v) ==
    CASE v.t = "number" -> v
      [] v.t = "null" -> JNum(0)
      [] OTHER -> JNaN

\* Number.isFinite(x) && x > 0  (JFraction(n) stands for n + 1/2)
IsPositive(v) ==
    v.t = "number" /\ (IF v.whole THEN v.n > 0 ELSE v.n >= 0)

\* Boolean(x) of a number: NaN and 0 are falsy
IsTruthyNumber(v) == v.t = "number" /\ ~(v.whole /\ v.n = 0)

\* xs.map((s) => Number(s)).filter((n) => Number.isFinite(n) && n > 0)
PositiveNumbers(xs) ==
    SelectSeq([i \in 1..Len(xs) |-> ToNumber(xs[i])], IsPositive)

\* (g) => Number(g.id) of an element of src.genres: only an object has an
\* id member; reading a member of null or undefined throws
HasMembers(g) == g.t \notin {"null", "undefined"}
GenreId(g) == IF g.t = "object" THEN JNum(g.n) ELSE JNaN

\* Array.isArray(src.genres) ? src.genres.map((g) => Number(g.id))
\*                                       .filter(Boolean) : []
genreIds(genres) ==
    IF genres.array
    THEN SelectSeq([i \in 1..Len(genres.items) |-> GenreId(genres.items[i])],
                   IsTruthyNumber)
    ELSE <<>>

\* similarIds of recommend: deduplicated positive numbers, [] for no array
similarIds(similar_games) ==
    IF similar_games.array
    THEN Dedup(PositiveNumbers(similar_games.items))
    ELSE <<>>

\* the request body as the client sent it: json (it parses as JSON), mode,
\* the numeric members, ids, and rest (the members of the mode that are not
\* modelled one by one, term, filters, sort, resource and body, fit the
\* schema)
Body(mode, id, ids, limit, offset, rest) ==
    [json |-> TRUE, mode |-> mode, id |-> id, ids |-> ids, limit |-> limit,
     offset |-> offset, rest |-> rest]
NotJson == [Body("", JUndefined, NoArray, JUndefined, JUndefined, FALSE)
               EXCEPT !.json = FALSE]

\* z.number().int()
IsInt(v) == v.t = "number" /\ v.whole
\* .default(d)
WithDefault(v, d) == IF v = JUndefined THEN JNum(d) ELSE v

\* limit: z.number().int().min(1).max(50).default(12) with `min(0)`
LimitOkFromZero(v) ==
    LET w == WithDefault(v, LimitDefault)
    IN  IsInt(w) /\ w.n >= 0 /\ w.n <= LimitMax

\* limit: z.number().int().min(1).max(50).default(12)
LimitOk(v) ==
    LET w == WithDefault(v, LimitDefault)
    IN  IsInt(w) /\ w.n >= LimitMin /\ w.n <= LimitMax

\* offset: z.number().int().min(0).default(0)
OffsetOk(v) ==
    LET w == WithDefault(v, OffsetDefault)
    IN  IsInt(w) /\ w.n >= OffsetMin

\* ids: z.array(z.number().int()).min(1).max(50)
IdsOk(ids) ==
    /\ ids.array
    /\ \A i \in 1..Len(ids.items) : IsInt(ids.items[i])
    /\ Len(ids.items) >= IdsMin /\ Len(ids.items) <= IdsMax

\* Input.parse(await req.json()) does not throw
Valid(body) ==
    /\ body.json
    /\ CASE body.mode = "search" ->
                body.rest /\ LimitOk(body.limit) /\ OffsetOk(body.offset)
         [] body.mode = "trending" ->
                LimitOk(body.limit) /\ OffsetOk(body.offset)
         [] body.mode = "discover" ->
                body.rest /\ LimitOk(body.limit) /\ OffsetOk(body.offset)
         [] body.mode = "taxonomy" -> body.rest
         [] body.mode = "detail" -> IsInt(body.id)
         [] body.mode = "recommend" -> IsInt(body.id) /\ LimitOk(body.limit)
         [] body.mode = "bulk" -> IdsOk(body.ids)
         [] body.mode = "multi" -> body.rest
         [] OTHER -> FALSE

\* the parsed input: the defaults filled in
Parse(body) ==
    [mode |-> body.mode, id |-> body.id, ids |-> body.ids.items,
     limit |-> WithDefault(body.limit, LimitDefault).n,
     offset |-> WithDefault(body.offset, OffsetDefault).n]

\* `trending:${limit}:${offset}`
CacheKey(limit, offset) == <<"trending", limit, offset>>

\* the body of an upstream request: the endpoint, the fields asked for and
\* the where, limit and offset clauses
Query(endpoint, fields, where, ids, except, limit, offset) ==
    [endpoint |-> endpoint, fields |-> fields, where |-> where, ids |-> ids,
     except |-> except, limit |-> limit, offset |-> offset]

\* what POST answers: NextResponse.json(body, {status, headers})
Json(kind, data, cc) ==
    [status |-> 200, kind |-> kind, data |-> data, error |-> NoError,
     cc |-> cc]
\* null answered with status 200
NotFoundAsOk ==
    [status |-> 200, kind |-> "null", data |-> <<>>, error |-> NoError,
     cc |-> ""]
\* NextResponse.json(null, { status: 404 })
NotFound ==
    [status |-> 404, kind |-> "null", data |-> <<>>, error |-> NoError,
     cc |-> ""]
NoResponse ==
    [status |-> 0, kind |-> "none", data |-> <<>>, error |-> NoError,
     cc |-> ""]
\* catch (e) { ... { status: 400 } }
BadRequest(err) ==
    [status |-> 400, kind |-> "error", data |-> <<>>, error |-> err,
     cc |-> ""]

\* a request in the handler: the body received, the await of igdb() it is
\* at (stage), Date.now() of the handler's first run, the ids of the
\* primitive feed, and the history of the upstream queries it has made and
\* of the data igdb() has returned to it
NoBody == Body("none", JUndefined, NoArray, JUndefined, JUndefined, FALSE)
NoRequest ==
    [body |-> NoBody, stage |-> "none", at |-> 0, ids |-> <<>>,
     queries |-> <<>>, answers |-> <<>>]
Request(body, t) ==
    [body |-> body, stage |-> "start", at |-> t, ids |-> <<>>,
     queries |-> <<>>, answers |-> <<>>]

\* an answer that empties the trending cache when it is an error
RespondDropCache(q, response, cache) ==
    [act |-> "respond", req |-> q, response |-> response,
     cache |-> IF response.kind = "error" THEN [k \in {} |-> 0] ELSE cache]

\* what a run of the handler ends in: an answer, or the next await of igdb()
Respond(q, response, cache) ==
    [act |-> "respond", req |-> q, response |-> response, cache |-> cache]
Await(q, stage, query, cache) ==
    [act |-> "await",
     req |-> [q EXCEPT !.stage = stage, !.queries = Append(@, query)],
     response |-> NoResponse, cache |-> cache]

\* the filtered ids of bulk without the filter
bulkIdsUnfiltered(ids) == Dedup(ids)

\* Array.from(new Set(ids.map((n) => Number(n))
\*                       .filter((x) => Number.isFinite(x) && x > 0)))
bulkIds(ids) == Dedup(PositiveNumbers(ids))

\* where id = (${ids.join(",")}); limit ${ids.length};
BulkQuery(ids) ==
    Query("games", "card", "id = (ids)", ids, JUndefined, Len(ids), 0)

\* the games of the primitive branch in the order the bulk fetch gave them
orderedAsFetched(ids, games) ==
    SelectSeq(games, LAMBDA g : ToNumber(g.id) \in Range(ids))

\* byId.set(Number(g.id), ...) for every g of games, then
\* ids.map((id) => byId.get(id)).filter(Boolean): for every id that has a
\* game, the last game fetched with that id
ordered(ids, games) ==
    LET Has(id) == \E i \in 1..Len(games) : ToNumber(games[i].id) = id
        byId(id) ==
            LET last == CHOOSE i \in 1..Len(games) :
                            /\ ToNumber(games[i].id) = id
                            /\ \A j \in (i + 1)..Len(games) :
                                   ToNumber(games[j].id) # id
            IN  games[last]
        present == SelectSeq(ids, Has)
    IN  [i \in 1..Len(present) |-> byId(present[i])]

\* similar_games of the detail answer
detailSimilar(similar_games) ==
    IF similar_games.array
    THEN JArray(PositiveNumbers(similar_games.items))
    ELSE JArray(<<>>)

\* the handler from its start to its first await or its answer: the request
\* with body `body` arrives at time t
Start(body, cache, t) ==
    LET q == Request(body, t)
        input == Parse(body)
        key == CacheKey(input.limit, input.offset)
        Games(fields, where) ==
            Query("games", fields, where, <<>>, JUndefined, input.limit,
                  input.offset)
    IN  IF ~Valid(body)
        THEN Respond(q, BadRequest(Error("ZodError", 0)), cache)
        ELSE CASE input.mode = "search" ->
                      Await(q, "search", Games("card", "search"), cache)
               [] input.mode = "trending" ->
                      IF key \in DOMAIN cache /\ cache[key].expiresAt > t
                      THEN Respond(q, Json("list", cache[key].data,
                                           "s-maxage=21600, swr"), cache)
                      ELSE Await(q, "trending", Games("card", "trending"),
                                 cache)
               [] input.mode = "discover" ->
                      Await(q, "discover", Games("card", "discover"), cache)
               [] input.mode = "taxonomy" ->
                      Await(q, "taxonomy",
                            Query("taxonomy", "name", "", <<>>, JUndefined,
                                  0, 0), cache)
               [] input.mode = "bulk" ->
                      LET ids == bulkIds(input.ids)
                      IN  IF ids = <<>>
                          THEN Respond(q, Json("list", <<>>, "s-maxage=3600"),
                                       cache)
                          ELSE Await(q, "bulk", BulkQuery(ids), cache)
               [] input.mode = "recommend" ->
                      Await(q, "source",
                            Query("games", "source", "id = id", <<input.id>>,
                                  JUndefined, 1, 0), cache)
               [] input.mode = "detail" ->
                      Await(q, "detail",
                            Query("games", "detail", "id = id", <<input.id>>,
                                  JUndefined, 1, 0), cache)
               [] input.mode = "multi" ->
                      Await(q, "multi",
                            Query("multiquery", "", "", <<>>, JUndefined,
                                  0, 0), cache)

\* recommend once the source lookup has returned data
OnSource(q, data, cache) ==
    LET input == Parse(q.body)
        src == data[1]
        similar == similarIds(src.similar_games)
        genres == genreIds(src.genres)
    IN  IF data = <<>> THEN Respond(q, NotFound, cache)
        ELSE IF similar # <<>>
        THEN Await(q, "similar", BulkQuery(Take(similar, input.limit)), cache)
        ELSE IF src.genres.array
                  /\ \E i \in 1..Len(src.genres.items) :
                         ~HasMembers(src.genres.items[i])
        THEN Respond(q, BadRequest(Error("TypeError", 0)), cache)
        ELSE IF genres # <<>>
        THEN Await(q, "genre",
                   Query("games", "card", "genres = (ids) & cover != null",
                         genres, input.id, input.limit, 0), cache)
        ELSE Await(q, "primitives",
                   Query("popularity_primitives", "game_id",
                         "popularity_type = 1", <<>>, JUndefined,
                         input.limit, 0), cache)

\* recommend once the primitive feed has returned prims
OnPrimitives(q, prims, cache) ==
    LET input == Parse(q.body)
        ids == Take(Dedup(PositiveNumbers(
                   [i \in 1..Len(prims) |-> prims[i].game_id])), input.limit)
    IN  IF ids = <<>>
        THEN Respond(q, Json("list", <<>>, "s-maxage=3600"), cache)
        ELSE Await([q EXCEPT !.ids = ids], "games", BulkQuery(ids), cache)

\* detail once the lookup has returned data
OnDetail(q, data, cache) ==
    IF data = <<>> THEN Respond(q, NotFound, cache)
    ELSE Respond(q,
             Json("item",
                  <<[data[1] EXCEPT
                        !.similar_games = detailSimilar(@)]>>,
                  "s-maxage=3600"), cache)

\* the handler from the return of `await igdb(...)` to its next await or its
\* answer; ok, err and data are what igdb() returned or threw
Continue(awaiting, ok, err, data, cache) ==
    LET q == IF ok THEN [awaiting EXCEPT !.answers = Append(@, data)]
             ELSE awaiting
    IN
    IF ~ok THEN Respond(q, BadRequest(err), cache)
    ELSE CASE q.stage \in {"search", "discover"} ->
                  Respond(q, Json("list", data, "no-store"), cache)
           [] q.stage = "trending" ->
                  LET key == CacheKey(Parse(q.body).limit,
                                      Parse(q.body).offset)
                      entry == [data |-> data,
                                expiresAt |-> q.at + TRENDING_TTL]
                  IN  Respond(q, Json("list", data, "s-maxage=21600, swr"),
                              [k \in DOMAIN cache \cup {key} |->
                                   IF k = key THEN entry ELSE cache[k]])
           [] q.stage = "taxonomy" ->
                  Respond(q, Json("list", data, "s-maxage=86400"), cache)
           [] q.stage \in {"bulk", "similar", "genre"} ->
                  Respond(q, Json("list", data, "s-maxage=3600"), cache)
           [] q.stage = "source" -> OnSource(q, data, cache)
           [] q.stage = "primitives" -> OnPrimitives(q, data, cache)
           [] q.stage = "games" ->
                  Respond(q, Json("list", ordered(q.ids, data),
                                  "s-maxage=3600"), cache)
           [] q.stage = "detail" -> OnDetail(q, data, cache)
           [] q.stage = "multi" ->
                  Respond(q, Json("list", data, "s-maxage=60"), cache)

-----------------------------------------------------------------------------
(* The strings the handlers build.  A string is the sequence of its        *)
(* characters; an argument that may be missing is Text(chars) or NoText.   *)

Text(chars) == [present |-> TRUE, text |-> chars]
NoText == [present |-> FALSE, text |-> <<>>]

\* s.startsWith(p)
StartsWith(s, p) == Len(s) >= Len(p) /\ SubSeq(s, 1, Len(p)) = p

\* where /t_[^\/]+/ can match in s: "t_" followed by a character that is not
\* a slash
SizeStarts(s) ==
    {i \in 1..(Len(s) - 2) : s[i] = "t" /\ s[i + 1] = "_" /\ s[i + 2] # "/"}

\* the last character of the match that starts at i: [^\/]+ is greedy
SizeEnd(s, i) ==
    CHOOSE j \in (i + 2)..Len(s) :
        /\ \A k \in (i + 2)..j : s[k] # "/"
        /\ j = Len(s) \/ s[j + 1] = "/"

\* s.replace(/t_[^\/]+/, size): the first match is replaced
ReplaceSize(s, size) ==
    IF SizeStarts(s) = {} THEN s
    ELSE LET i == CHOOSE a \in SizeStarts(s) : \A b \in SizeStarts(s) : a <= b
         IN  SubSeq(s, 1, i - 1) \o size \o SubSeq(s, SizeEnd(s, i) + 1, Len(s))

HttpsColon == <<"h", "t", "t", "p", "s", ":">>

\* formatIGDBImage with "https:" put before every url
formatIGDBImageAlwaysProto(url, size) ==
    IF ~Truthy(url) THEN <<>>
    ELSE ReplaceSize(HttpsColon \o url.text, size)

\* formatIGDBImage(url, size)
formatIGDBImage(url, size) ==
    IF ~Truthy(url) THEN <<>>
    ELSE LET withProto == IF StartsWith(url.text, <<"/", "/">>)
                          THEN HttpsColon \o url.text
                          ELSE url.text
         IN  ReplaceSize(withProto, size)

\* the last application of formatIGDBImage: its arguments, its result, the
\* result of the application before it, and the number of applications so
\* far, each to the result of the one before
NoImage ==
    [url |-> NoText, size |-> <<>>, out |-> <<>>, prev |-> <<>>, runs |-> 0]

\* term: z.string().min(1).max(100)
TermMin == 1
TermMax == 100
TermOk(term) == Len(term) >= TermMin /\ Len(term) <= TermMax

\* term.replace(/"/g, '\\"'): a backslash is put before every double quote
RECURSIVE EscapeQuotes(_)
EscapeQuotes(term) ==
    IF term = <<>> THEN <<>>
    ELSE (IF Head(term) = "\"" THEN <<"\\", "\"">> ELSE <<Head(term)>>)
         \o EscapeQuotes(Tail(term))

\* the text of the upstream query of the search branch: the search statement
\* character by character, then the other clauses
searchQuery(term, limit, offset) ==
    [text |-> <<"search ", "\"">> \o EscapeQuotes(term)
              \o <<"\"", ";", "fields card;", "where cover != null;">>,
     limit |-> limit, offset |-> offset]

\* the last query the search branch has built, and the term it was built for
NoSearch ==
    [built |-> FALSE, term |-> <<>>, q |-> searchQuery(<<>>, 0, 0)]

-----------------------------------------------------------------------------
(* The local state of one logical igdb() call *)

\* pc: "slotSleep"  in the setTimeout of waitForSlot
\*     "admitted"   waitForSlot has returned, getTwitchToken() not yet run
\*     "tokenFetch" awaiting the fetch of getTwitchToken
\*     "fetch"      awaiting the fetch of attempt `attempt`
\*     "backoff"    in the setTimeout before the next attempt
\*     "done"       igdb() has returned or thrown
\* last, via, waitMs: the outcome of the attempt the call backs off from, the
\* branch that set the timer and its waitMs.
\* History fields: admits, releases (runs of the admission and of
\* releaseSlot for this call), sent (fetches to the upstream), retries
\* (`continue`s taken), faults (failed attempts seen), hist ("plain429":
\* every failed attempt so far was a 429 without a usable retry-after header;
\* "429": every one was a 429; "mixed": some was not).
\* History fields of getTwitchToken, kept where its cache checks are
\* recorded: treqs (requests to the identity provider), check (what line 62
\* saw: the cached token and the time left to its expiresAt), ttl (the time
\* left to the expiresAt of the token getTwitchToken returned, when it
\* returned).
\* req: the request whose handler awaits this call (NoRequest for a call made
\* by another caller); data: the parsed JSON igdb() returned.
NotChecked == [seen |-> FALSE, cached |-> FALSE, token |-> "none", ahead |-> 0]
NewCall ==
    [pc |-> "slotSleep", rem |-> 0, attempt |-> 0, token |-> "none",
     last |-> NoOutcome, via |-> "none", waitMs |-> 0,
     ok |-> FALSE, err |-> NoError,
     admits |-> 0, releases |-> 0, sent |-> 0, retries |-> 0,
     faults |-> 0, hist |-> "plain429",
     treqs |-> 0, check |-> NotChecked, ttl |-> 0,
     req |-> NoRequest, data |-> <<>>]

Live == BagToSet(calls)
Replace(r, s) == (calls (-) SetToBag({r})) (+) SetToBag({s})

\* the call's state after one iteration of the loop of waitForSlot
AfterSlotCheck(r, s) ==
    IF s.admitted
    THEN [r EXCEPT !.pc = "admitted", !.rem = 0, !.admits = @ + 1]
    ELSE [r EXCEPT !.pc = "slotSleep", !.rem = PollMs]

\* the shared state after one iteration of the loop of waitForSlot; the
\* history of admission times is kept when log is set
SlotEffect(s, log) ==
    /\ tokens' = s.tokens
    /\ lastRefill' = s.lastRefill
    /\ inFlight' = s.inFlight
    /\ admitLog' = IF s.admitted /\ log THEN Append(admitLog, now)
                   ELSE admitLog

\* releaseSlot() after the return only, no finally
ReleaseOnReturn(r, q, ok, err) ==
    /\ inFlight' = IF ok THEN releaseSlot(inFlight) ELSE inFlight
    /\ calls' = Replace(r, [q EXCEPT !.pc = "done", !.rem = 0, !.ok = ok,
                                     !.err = err,
                                     !.releases = IF ok THEN @ + 1 ELSE @,
                                     !.last = NoOutcome, !.via = "none",
                                     !.waitMs = 0])

\* the try block is left by return or throw: finally { releaseSlot() }
\* (r is the call, q its local state when it leaves the block)
Finally(r, q, ok, err) ==
    /\ inFlight' = releaseSlot(inFlight)
    /\ calls' = Replace(r, [q EXCEPT !.pc = "done", !.rem = 0, !.ok = ok,
                                     !.err = err, !.releases = @ + 1,
                                     !.last = NoOutcome, !.via = "none",
                                     !.waitMs = 0])

\* while (true) { attempt += 1; ... fetch(endpoint, ...)
StartAttempt(r, token) ==
    [r EXCEPT !.pc = "fetch", !.rem = 0, !.token = token,
              !.attempt = @ + 1, !.sent = @ + 1,
              !.last = NoOutcome, !.via = "none", !.waitMs = 0]

-----------------------------------------------------------------------------
(* Actions *)

\* igdb() is called: waitForSlot runs up to its first await
CallIgdb(log) ==
    /\ toIssue > 0
    /\ toIssue' = toIssue - 1
    /\ LET s == waitForSlot(tokens, lastRefill, inFlight, now)
       IN  /\ SlotEffect(s, log)
           /\ calls' = calls (+) SetToBag({AfterSlotCheck(NewCall, s)})
    /\ UNCHANGED <<now, tokenCache, credentials>>
    /\ UNCHANGED routeVars

\* the 100 ms timer of waitForSlot fires: the next iteration of its loop
PollSlot(log) ==
    \E r \in Live :
        /\ r.pc = "slotSleep" /\ r.rem = 0
        /\ LET s == waitForSlot(tokens, lastRefill, inFlight, now)
           IN  /\ SlotEffect(s, log)
               /\ calls' = Replace(r, AfterSlotCheck(r, s))
        /\ UNCHANGED <<now, tokenCache, credentials, toIssue>>
        /\ UNCHANGED routeVars

\* the cache check without the refresh margin
CacheFreshNoMargin(cache, t) == cache # NoToken /\ t < cache.expiresAt

\* `now < tokenCache.expiresAt - 60_000`
CacheFresh(cache, t) == cache # NoToken /\ t < cache.expiresAt - RefreshMarginMs

\* history: what the check of line 62 saw at time t
CacheCheck(cache, t) ==
    IF cache = NoToken
    THEN [seen |-> TRUE, cached |-> FALSE, token |-> "none", ahead |-> 0]
    ELSE [seen |-> TRUE, cached |-> TRUE, token |-> cache.token,
          ahead |-> cache.expiresAt - t]

\* the admitted call runs getTwitchToken() up to its first await; with a
\* fresh cached token it goes on to the first attempt.  The history of the
\* cache check is kept when log is set.
GetTokenAt(log) ==
    \E r \in Live :
        /\ r.pc = "admitted"
        /\ IF ~credentials
           THEN Finally(r, r, FALSE, Error("Missing Twitch credentials", 0))
           ELSE LET c == IF log THEN CacheCheck(tokenCache, now)
                         ELSE NotChecked
                IN  /\ calls' = Replace(r,
                          IF CacheFresh(tokenCache, now)
                          THEN [StartAttempt(r, tokenCache.token) EXCEPT
                                   !.check = c,
                                   !.ttl = IF log
                                           THEN tokenCache.expiresAt - now
                                           ELSE 0]
                          ELSE [r EXCEPT !.pc = "tokenFetch", !.check = c,
                                         !.treqs = IF log THEN @ + 1
                                                   ELSE @])
                    /\ UNCHANGED inFlight
        /\ UNCHANGED <<now, tokens, lastRefill, tokenCache, credentials,
                       toIssue, admitLog>>
        /\ UNCHANGED routeVars

GetToken == GetTokenAt(FALSE)

\* tokenCache after the identity provider has answered o at time t, with a
\* failed exchange dropping the cached token
CacheAfterDropOnFailure(cache, o, t) ==
    IF o.kind = "ok"
    THEN [token |-> o.access_token, expiresAt |-> t + o.expires_in * 1000]
    ELSE NoToken

\* tokenCache after the identity provider has answered o at time t, with the
\* new token stored under the expiry of the token it replaces
CacheAfterKeepExpiry(cache, o, t) ==
    IF o.kind = "ok"
    THEN [token |-> o.access_token,
          expiresAt |-> IF cache = NoToken THEN t + o.expires_in * 1000
                        ELSE cache.expiresAt]
    ELSE cache

\* tokenCache after the identity provider has answered o at time t
CacheAfter(cache, o, t) ==
    IF o.kind = "ok"
    THEN [token |-> o.access_token, expiresAt |-> t + o.expires_in * 1000]
    ELSE cache

\* the identity provider answers: o.kind is "ok" (2xx with a JSON body),
\* "rejected" (another status) or "network" (fetch or res.json() threw)
TokenResponse(o) ==
    \E r \in Live :
        /\ r.pc = "tokenFetch"
        /\ tokenCache' = CacheAfter(tokenCache, o, now)
        /\ CASE o.kind = "ok" ->
                  /\ calls' = Replace(r,
                         [StartAttempt(r, tokenCache'.token) EXCEPT
                             !.ttl = IF r.check.seen
                                     THEN tokenCache'.expiresAt - now
                                     ELSE 0])
                  /\ UNCHANGED inFlight
             [] o.kind = "rejected" ->
                  Finally(r, r, FALSE, Error("Twitch token error", o.status))
             [] o.kind = "network" ->
                  Finally(r, r, FALSE, Error("fetch failed", 0))
        /\ UNCHANGED <<now, tokens, lastRefill, credentials, toIssue, admitLog>>
        /\ UNCHANGED routeVars

\* the call's history once attempt's outcome o is known
Seen(r, o) ==
    LET plain == o.kind = "response" /\ o.status = 429 /\ ~Truthy(o.retryAfter)
        limited == o.kind = "response" /\ o.status = 429
    IN  [r EXCEPT !.last = o,
                  !.faults = IF IsFault(o) THEN @ + 1 ELSE @,
                  !.hist = IF ~IsFault(o) \/ plain THEN @
                           ELSE IF limited /\ @ # "mixed" THEN "429"
                           ELSE "mixed"]

\* the fetch of the current attempt of call r settles with outcome o
FetchResponseTo(r, o) ==
    /\ r.pc = "fetch"
    /\ LET d == OnAttempt(r.attempt, o)
           q == [Seen(r, o) EXCEPT !.via = d.via, !.waitMs = d.waitMs,
                                   !.data = IF d.act = "return"
                                            THEN o.data ELSE @]
       IN  CASE d.act = "return" -> Finally(r, q, TRUE, NoError)
             [] d.act = "throw" -> Finally(r, q, FALSE, d.err)
             [] d.act = "sleep" ->
                  /\ calls' = Replace(r,
                         [q EXCEPT !.pc = "backoff",
                                   !.rem = TimerDelay(d.waitMs),
                                   !.retries = @ + 1])
                  /\ UNCHANGED inFlight
    /\ UNCHANGED <<now, tokens, lastRefill, tokenCache, credentials,
                   toIssue, admitLog>>
    /\ UNCHANGED routeVars

\* the fetch of the current attempt of some call settles with outcome o
FetchResponse(o) == \E r \in Live : FetchResponseTo(r, o)

\* the backoff timer fires: `continue`, the next attempt
Retry ==
    \E r \in Live :
        /\ r.pc = "backoff" /\ r.rem = 0
        /\ calls' = Replace(r, StartAttempt(r, r.token))
        /\ UNCHANGED <<now, tokens, lastRefill, inFlight, tokenCache,
                       credentials, toIssue, admitLog>>
        /\ UNCHANGED routeVars

\* dt milliseconds pass, up to time limit; a call whose await has already
\* settled ("admitted") runs as a microtask, before the clock moves
Elapse(r, dt) == [r EXCEPT !.rem = Max(0, @ - dt)]
Advance(dt, limit) ==
    /\ now + dt <= limit
    /\ \A r \in Live : r.pc # "admitted"
    /\ now' = now + dt
    /\ LET Tick(r) == Elapse(r, dt) IN calls' = BagOfAll(Tick, calls)
    /\ UNCHANGED <<tokens, lastRefill, inFlight, tokenCache, credentials,
                   toIssue, admitLog>>
    /\ UNCHANGED routeVars

\* dt milliseconds pass, with Date.now() read relative to the present: now
\* stays and every time the gateway has stored moves dt into the past.  The
\* gateway uses lastRefill only in now - lastRefill, and an interval of
\* FullRefillMs or more fills the bucket whatever its length, so lastRefill
\* is kept no further back than that.  For behaviours without requests to
\* POST.
Pass(dt) ==
    /\ \A r \in Live : r.pc # "admitted"
    /\ lastRefill' = Max(lastRefill - dt, now - FullRefillMs)
    /\ tokenCache' = IF tokenCache = NoToken THEN NoToken
                     ELSE [tokenCache EXCEPT !.expiresAt = @ - dt]
    /\ LET Tick(r) == Elapse(r, dt) IN calls' = BagOfAll(Tick, calls)
    /\ UNCHANGED <<now, tokens, inFlight, credentials, toIssue, admitLog>>
    /\ UNCHANGED routeVars

\* a run of the handler ends as h says: the answer is sent, or igdb() is
\* called and waitForSlot runs up to its first await; old holds the call the
\* handler was awaiting, if any
Run(h, old, log) ==
    /\ trendingCache' = h.cache
    /\ IF h.act = "respond"
       THEN /\ responses' = responses
                     (+) SetToBag({[req |-> h.req, response |-> h.response]})
            /\ calls' = calls (-) old
            /\ UNCHANGED <<tokens, lastRefill, inFlight, admitLog>>
       ELSE LET s == waitForSlot(tokens, lastRefill, inFlight, now)
                c == [NewCall EXCEPT !.req = h.req]
            IN  /\ SlotEffect(s, log)
                /\ calls' = (calls (-) old) (+) SetToBag({AfterSlotCheck(c, s)})
                /\ UNCHANGED responses
    /\ UNCHANGED <<now, tokenCache, credentials, toIssue>>
    /\ UNCHANGED textVars

\* POST is called with a request body: the handler runs up to its first await
\* or to its answer
Post(body, log) ==
    /\ toPost > 0
    /\ toPost' = toPost - 1
    /\ Run(Start(body, trendingCache, now), EmptyBag, log)

\* igdb() has returned to a handler, or thrown, and the handler has not gone
\* on yet
Returned(r) == r.pc = "done" /\ r.req # NoRequest
ResumePending == \E r \in Live : Returned(r)

\* the handler goes on after `await igdb(...)`, up to its next await or to
\* its answer
Resume(log) ==
    \E r \in Live :
        /\ Returned(r)
        /\ Run(Continue(r.req, r.ok, r.err, r.data, trendingCache),
               SetToBag({r}), log)
        /\ UNCHANGED toPost

\* a handler formats an image url of an upstream answer
FormatImage(url, size) ==
    /\ image.runs = 0
    /\ image' = [url |-> url, size |-> size,
                 out |-> formatIGDBImage(url, size), prev |-> <<>>,
                 runs |-> 1]
    /\ UNCHANGED <<now, tokens, lastRefill, inFlight, tokenCache, credentials,
                   calls, toIssue, admitLog, trendingCache, responses, toPost,
                   search>>

\* a formatted url is formatted again, for the same size
FormatAgain(most) ==
    /\ image.runs >= 1 /\ image.runs < most
    /\ image' = [image EXCEPT
                    !.prev = image.out,
                    !.out = formatIGDBImage(Text(image.out), image.size),
                    !.runs = @ + 1]
    /\ UNCHANGED <<now, tokens, lastRefill, inFlight, tokenCache, credentials,
                   calls, toIssue, admitLog, trendingCache, responses, toPost,
                   search>>

\* the search branch builds its upstream query for a term the schema accepts
BuildSearch(term, limit, offset) ==
    /\ ~search.built
    /\ TermOk(term)
    /\ search' = [built |-> TRUE, term |-> term,
                  q |-> searchQuery(term, limit, offset)]
    /\ UNCHANGED <<now, tokens, lastRefill, inFlight, tokenCache, credentials,
                   calls, toIssue, admitLog, trendingCache, responses, toPost,
                   image>>

-----------------------------------------------------------------------------
(* Specifications *)

\* what the identity provider can answer
TokenOk(token, expires_in) ==
    [kind |-> "ok", status |-> 200, access_token |-> token,
     expires_in |-> expires_in]
TokenRejected(status) ==
    [kind |-> "rejected", status |-> status, access_token |-> "none",
     expires_in |-> 0]
TokenNetworkError ==
    [kind |-> "network", status |-> 0, access_token |-> "none",
     expires_in |-> 0]

\* new Map()
EmptyMap == [k \in {} |-> 0]

\* the state after the modules are loaded, with n calls of igdb() and m
\* requests to come
InitOf(n, m) ==
    /\ now = 0
    /\ tokens = CAPACITY * Milli
    /\ lastRefill = now
    /\ inFlight = 0
    /\ tokenCache = NoToken
    /\ credentials \in BOOLEAN
    /\ calls = EmptyBag
    /\ toIssue = n
    /\ admitLog = <<>>
    /\ trendingCache = EmptyMap
    /\ responses = EmptyBag
    /\ toPost = m
    /\ image = NoImage
    /\ search = NoSearch

InitWith(n) == InitOf(n, 0)

\* Spec: few calls, every outcome of the upstream and of the identity
\* provider, a 1000 ms clock
RetryAfterHeaders ==
    {NoRetryAfter, Header(<<>>), Header(<<"2">>), Header(<<"W", "e", "d">>)}
Outcomes ==
    {Response(200, NoRetryAfter, TRUE), Response(200, NoRetryAfter, FALSE),
     Response(404, NoRetryAfter, FALSE), Response(503, NoRetryAfter, FALSE),
     NetworkError}
    \cup {Response(429, h, FALSE) : h \in RetryAfterHeaders}
TokenOutcomes ==
    {TokenOk("t1", 3600), TokenRejected(403), TokenNetworkError}

Init == InitWith(NumCalls)

Next ==
    \/ CallIgdb(TRUE)
    \/ GetToken
    \/ \E o \in TokenOutcomes : TokenResponse(o)
    \/ \E o \in Outcomes : FetchResponse(o)
    \/ Retry
    \/ Advance(1000, MaxTicks * 1000)

Spec == Init /\ [][Next]_vars

\* SpecAdmit: enough calls to fill the in-flight ceiling, a 250 ms clock; the
\* identity provider may reject, the upstream answers 200 after any delay
AdmitOutcomes == {Response(200, NoRetryAfter, TRUE)}
AdmitTokenOutcomes == {TokenOk("t1", 3600), TokenRejected(403)}

InitAdmit == InitWith(AdmitCalls)

NextAdmit ==
    \/ CallIgdb(FALSE)
    \/ PollSlot(FALSE)
    \/ GetToken
    \/ \E o \in AdmitTokenOutcomes : TokenResponse(o)
    \/ \E o \in AdmitOutcomes : FetchResponse(o)
    \/ Advance(250, AdmitTicks * 250)

SpecAdmit == InitAdmit /\ [][NextAdmit]_vars

\* SpecRate: a burst of calls larger than the bucket, a 100 ms clock, the
\* admission times recorded
InitRate == InitWith(RateCalls)

NextRate ==
    \/ CallIgdb(TRUE)
    \/ PollSlot(TRUE)
    \/ GetToken
    \/ \E o \in AdmitTokenOutcomes : TokenResponse(o)
    \/ \E o \in AdmitOutcomes : FetchResponse(o)
    \/ Advance(100, RateTicks * 100)

SpecRate == InitRate /\ [][NextRate]_vars

\* SpecToken: calls spread over minutes, a 30 s clock; the identity provider
\* grants tokens of either name that last 30 s or 150 s, or fails; the cache
\* checks are recorded
LeaseTokenOutcomes ==
    {TokenOk("t1", 150), TokenOk("t2", 30), TokenRejected(403),
     TokenNetworkError}

InitToken == InitWith(TokenCalls)

NextToken ==
    \/ CallIgdb(FALSE)
    \/ GetTokenAt(TRUE)
    \/ \E o \in LeaseTokenOutcomes : TokenResponse(o)
    \/ \E o \in AdmitOutcomes : FetchResponse(o)
    \/ Advance(30000, TokenTicks * 30000)

SpecToken == InitToken /\ [][NextToken]_vars

\* In the specifications of the route handler, a handler that igdb() has
\* returned to goes on before anything else happens (its continuation is a
\* microtask).

\* SpecInput: requests of every mode, schema-valid and not; the upstream
\* answers at once with a list of games
InvalidBodies ==
    {NotJson,
     Body("", JUndefined, NoArray, JUndefined, JUndefined, TRUE),
     Body("trendy", JUndefined, NoArray, JUndefined, JUndefined, TRUE),
     Body("trending", JUndefined, NoArray, JNum(0), JUndefined, TRUE),
     Body("trending", JUndefined, NoArray, JNum(51), JUndefined, TRUE),
     Body("trending", JUndefined, NoArray, JFraction(1), JUndefined, TRUE),
     Body("trending", JUndefined, NoArray, JNum(12), JNum(-1), TRUE),
     Body("trending", JUndefined, NoArray, JNull, JUndefined, TRUE),
     Body("bulk", JUndefined, NoArray, JUndefined, JUndefined, TRUE),
     Body("bulk", JUndefined, JArray(<<>>), JUndefined, JUndefined, TRUE),
     Body("bulk", JUndefined, JArray(<<JNum(10), JString>>), JUndefined,
          JUndefined, TRUE),
     Body("bulk", JUndefined, JArray(<<JFraction(1)>>), JUndefined,
          JUndefined, TRUE),
     Body("detail", JUndefined, NoArray, JUndefined, JUndefined, TRUE),
     Body("detail", JString, NoArray, JUndefined, JUndefined, TRUE),
     Body("recommend", JNum(1), NoArray, JNum(0), JUndefined, TRUE),
     Body("recommend", JFraction(1), NoArray, JUndefined, JUndefined, TRUE),
     Body("search", JUndefined, NoArray, JUndefined, JUndefined, FALSE),
     Body("discover", JUndefined, NoArray, JUndefined, JUndefined, FALSE),
     Body("taxonomy", JUndefined, NoArray, JUndefined, JUndefined, FALSE),
     Body("multi", JUndefined, NoArray, JUndefined, JUndefined, FALSE)}
EmptyBulkBodies ==
    {Body("bulk", JUndefined, JArray(<<JNum(0)>>), JUndefined, JUndefined,
          TRUE),
     Body("bulk", JUndefined, JArray(<<JNum(-1), JNum(0), JNum(-1)>>),
          JUndefined, JUndefined, TRUE)}
ValidBodies ==
    {Body("search", JUndefined, NoArray, JUndefined, JUndefined, TRUE),
     Body("trending", JUndefined, NoArray, JUndefined, JUndefined, TRUE),
     Body("trending", JUndefined, NoArray, JNum(1), JNum(0), TRUE),
     Body("discover", JUndefined, NoArray, JNum(50), JNum(0), TRUE),
     Body("taxonomy", JUndefined, NoArray, JUndefined, JUndefined, TRUE),
     Body("multi", JUndefined, NoArray, JUndefined, JUndefined, TRUE),
     Body("bulk", JUndefined, JArray(<<JNum(20), JNum(0), JNum(10), JNum(20)>>),
          JUndefined, JUndefined, TRUE),
     Body("detail", JNum(1), NoArray, JUndefined, JUndefined, TRUE),
     Body("recommend", JNum(1), NoArray, JUndefined, JUndefined, TRUE)}
InputBodies == InvalidBodies \cup EmptyBulkBodies \cup ValidBodies

\* games as the upstream answers a bulk fetch
BulkGames == {Game(id, NoArray, NoArray) : id \in {10, 20, 30}}
InputOutcomes ==
    {Payload(<<Game(10, NoArray, NoArray), Game(20, NoArray, NoArray)>>)}

InitInput == InitOf(0, InputReqs)

NextInput ==
    \/ Resume(FALSE)
    \/ ~ResumePending /\ \E b \in InputBodies : Post(b, FALSE)
    \/ ~ResumePending /\ GetToken
    \/ ~ResumePending /\ \E o \in AdmitTokenOutcomes : TokenResponse(o)
    \/ ~ResumePending /\ \E o \in InputOutcomes : FetchResponse(o)

SpecInput == InitInput /\ [][NextInput]_vars

\* SpecRecommend: recommend and detail requests; the upstream answers the
\* lookup of one game with no game or with a game of any shape, the query of
\* the primitives with a feed or with nothing, and any other query with a
\* list of games
RecommendBodies ==
    {Body("recommend", JNum(1), NoArray, JUndefined, JUndefined, TRUE),
     Body("recommend", JNum(1), NoArray, JNum(2), JUndefined, TRUE),
     Body("detail", JNum(1), NoArray, JUndefined, JUndefined, TRUE)}
SourceGames ==
    {Game(1, JArray(<<JNum(7), JNum(0), JNum(7), JNum(8), JNum(9)>>),
          JArray(<<JObject(5)>>)),
     Game(1, JArray(<<>>), JArray(<<JObject(5), JObject(0), JObject(6)>>)),
     Game(1, NoArray, JArray(<<JNum(5), JNum(6)>>)),
     Game(1, JArray(<<JString>>), JArray(<<JObject(0)>>)),
     Game(1, JArray(<<>>), JArray(<<JNull>>)),
     Game(1, NoArray, NoArray)}
Feeds ==
    {<<Primitive(JNum(30)), Primitive(JNum(10)), Primitive(JNum(30)),
       Primitive(JNum(0)), Primitive(JNum(20))>>,
     <<Primitive(JNum(20)), Primitive(JNum(30))>>,
     <<Primitive(JUndefined), Primitive(JNum(0))>>}
\* the games of a bulk fetch: any of them, each once, in any order, or with
\* a game twice
GameLists ==
    {a \in UNION {[1..n -> BulkGames] : n \in 0..Cardinality(BulkGames)} :
        \A i, j \in 1..Len(a) : a[i] = a[j] => i = j}
    \cup {<<Game(10, NoArray, NoArray), Game(10, NoArray, NoArray)>>}
AnswersTo(query) ==
    IF query.endpoint = "popularity_primitives" THEN Feeds \cup {<<>>}
    ELSE IF query.where = "id = id"
         THEN {<<g>> : g \in SourceGames} \cup {<<>>}
    ELSE GameLists
RecommendOutcomes(r) ==
    {Payload(a) : a \in AnswersTo(r.req.queries[Len(r.req.queries)])}

InitRecommend == InitOf(0, RecommendReqs)

NextRecommend ==
    \/ Resume(FALSE)
    \/ ~ResumePending /\ \E b \in RecommendBodies : Post(b, FALSE)
    \/ ~ResumePending /\ GetToken
    \/ ~ResumePending /\ \E o \in AdmitTokenOutcomes : TokenResponse(o)
    \/ ~ResumePending
          /\ \E r \in Live :
                 r.pc = "fetch"
                   /\ \E o \in RecommendOutcomes(r) : FetchResponseTo(r, o)

SpecRecommend == InitRecommend /\ [][NextRecommend]_vars

\* SpecErrors: requests valid and not; the upstream answers with a game,
\* with no game, or fails in every way; a 2000 ms clock
ErrorBodies ==
    {Body("trendy", JUndefined, NoArray, JUndefined, JUndefined, TRUE),
     Body("trending", JUndefined, NoArray, JNum(0), JUndefined, TRUE),
     Body("search", JUndefined, NoArray, JUndefined, JUndefined, TRUE),
     Body("detail", JNum(1), NoArray, JUndefined, JUndefined, TRUE)}
ErrorOutcomes ==
    {Payload(<<>>), Payload(<<Game(1, JArray(<<JNum(10)>>), NoArray)>>),
     Response(429, NoRetryAfter, FALSE), Response(503, NoRetryAfter, FALSE),
     Response(404, NoRetryAfter, FALSE), NetworkError}

InitErrors == InitOf(0, ErrorReqs)

NextErrors ==
    \/ Resume(FALSE)
    \/ ~ResumePending /\ \E b \in ErrorBodies : Post(b, FALSE)
    \/ ~ResumePending /\ GetToken
    \/ ~ResumePending /\ \E o \in AdmitTokenOutcomes : TokenResponse(o)
    \/ ~ResumePending /\ \E o \in ErrorOutcomes : FetchResponse(o)
    \/ ~ResumePending /\ Retry
    \/ ~ResumePending /\ Advance(2000, ErrorTicks * 2000)

SpecErrors == InitErrors /\ [][NextErrors]_vars

\* SpecTrending: trending requests for two cache keys, spread over more than
\* the time to live of a cache entry; a 30 s clock
TrendingBodies ==
    {Body("trending", JUndefined, NoArray, JUndefined, JUndefined, TRUE),
     Body("trending", JUndefined, NoArray, JNum(1), JNum(0), TRUE)}
TrendingOutcomes == {Payload(<<Game(10, NoArray, NoArray)>>)}
GrantOutcomes == {TokenOk("t1", 3600)}

InitTrending == InitOf(0, TrendingReqs)

NextTrending ==
    \/ Resume(FALSE)
    \/ ~ResumePending /\ \E b \in TrendingBodies : Post(b, FALSE)
    \/ ~ResumePending /\ GetToken
    \/ ~ResumePending /\ \E o \in GrantOutcomes : TokenResponse(o)
    \/ ~ResumePending /\ \E o \in TrendingOutcomes : FetchResponse(o)
    \/ ~ResumePending /\ Advance(30000, TrendingTicks * 30000)

SpecTrending == InitTrending /\ [][NextTrending]_vars

\* SpecCache: trending requests for two cache keys, one after the answer to
\* the other, while the upstream and the identity provider may fail; a 30 s
\* clock
CacheOutcomes ==
    TrendingOutcomes
    \cup {Response(503, NoRetryAfter, FALSE), Response(404, NoRetryAfter, FALSE)}

InitCache == InitOf(0, CacheReqs)

NextCache ==
    \/ Resume(FALSE)
    \/ calls = EmptyBag /\ \E b \in TrendingBodies : Post(b, FALSE)
    \/ ~ResumePending /\ GetToken
    \/ ~ResumePending /\ \E o \in AdmitTokenOutcomes : TokenResponse(o)
    \/ ~ResumePending /\ \E o \in CacheOutcomes : FetchResponse(o)
    \/ ~ResumePending /\ Retry
    \/ ~ResumePending /\ Advance(30000, CacheTicks * 30000)

SpecCache == InitCache /\ [][NextCache]_vars

\* SpecLive: more calls than the in-flight ceiling, time without end (a
\* 250 ms clock read relative to the present); an admitted call holds its
\* slot until the identity provider has answered, after any delay, and ends
\* by the rejected exchange (or at once, by the missing credentials).
\* Timers fire, microtasks run, the identity provider answers and time
\* passes: each of these happens if it stays possible.
LiveTokenOutcomes == {TokenRejected(403)}

InitLive == InitWith(LiveCalls)

NextLive ==
    \/ CallIgdb(FALSE)
    \/ PollSlot(FALSE)
    \/ GetToken
    \/ \E o \in LiveTokenOutcomes : TokenResponse(o)
    \/ Pass(250)

SpecLive ==
    /\ InitLive /\ [][NextLive]_vars
    /\ WF_vars(PollSlot(FALSE))
    /\ WF_vars(GetToken)
    /\ WF_vars(\E o \in LiveTokenOutcomes : TokenResponse(o))
    /\ WF_vars(Pass(250))

\* SpecImage: formatIGDBImage applied to the image urls the upstream serves,
\* protocol-relative or with https, to a missing url and to the empty
\* string, for every size the handlers ask for, and again to its own result
HttpsProto == HttpsColon \o <<"/", "/">>
ImageBase == 
    <<"i", "m", "a", "g", "e", "s", ".", "i", "g", "d", "b", ".", "c", "o",
      "m", "/", "i", "g", "d", "b", "/", "i", "m", "a", "g", "e", "/", "u",
      "p", "l", "o", "a", "d", "/">>
ImageSizes ==
    {<<"t", "_", "c", "o", "v", "e", "r", "_", "b", "i", "g">>,
     <<"t", "_", "o", "r", "i", "g", "i", "n", "a", "l">>,
     <<"t", "_", "1", "0", "8", "0", "p">>,
     <<"t", "_", "l", "o", "g", "o", "_", "m", "e", "d">>}
UpstreamSizes ==
    {<<"t", "_", "t", "h", "u", "m", "b">>,
     <<"t", "_", "c", "o", "v", "e", "r", "_", "b", "i", "g">>,
     <<"t", "_", "s", "c", "r", "e", "e", "n", "s", "h", "o", "t", "_", "m",
      "e", "d">>}
ImageNames ==
    {<<"c", "o", "1", "w", "y", "y", ".", "j", "p", "g">>,
     <<"s", "h", "o", "t", "_", "1", ".", "j", "p", "g">>,
     <<"n", "o", "c", "o", "v", "e", "r", ".", "p", "n", "g">>}
ImageUrl(proto, size, name) == proto \o ImageBase \o size \o <<"/">> \o name
ImageUrls ==
    {Text(ImageUrl(proto, size, name)) :
        proto \in {<<"/", "/">>, HttpsProto}, size \in UpstreamSizes,
        name \in ImageNames}
MissingUrls == {NoText, Text(<<>>)}

InitImage == InitOf(0, 0)

NextImage ==
    \/ \E url \in ImageUrls \cup MissingUrls, size \in ImageSizes :
           FormatImage(url, size)
    \/ FormatAgain(ImageRuns)

SpecImage == InitImage /\ [][NextImage]_vars

\* SpecSearch: the search branch builds its query for every term of up to
\* MaxTerm characters that are letters, double quotes or backslashes
TermChars == {"a", "\"", "\\"}
Terms == UNION {[1..n -> TermChars] : n \in 0..MaxTerm}

InitSearch == InitOf(0, 0)

NextSearch ==
    \E term \in Terms : BuildSearch(term, LimitDefault, OffsetDefault)

SpecSearch == InitSearch /\ [][NextSearch]_vars

-----------------------------------------------------------------------------
(* Claims *)

Held == {"admitted", "tokenFetch", "fetch", "backoff"}
Sleeping(r) == r.pc = "slotSleep"
Refused(r) == r.pc = "slotSleep" /\ r.rem = PollMs

\* C1 (SpecAdmit): in every reachable state the in-flight count is at most
\* MAX_INFLIGHT (8).
C1_InFlightAtMostCeiling == inFlight <= MAX_INFLIGHT

\* the ceiling is reached and it, not the bucket, has just refused a call
C1_Witness ==
    /\ inFlight = MAX_INFLIGHT
    /\ tokens >= 1 * Milli
    /\ \E r \in Live : Refused(r)

\* C2 (SpecRate): in every reachable state the bucket holds at least 0 and at
\* most CAPACITY (4) tokens.
C2_TokensWithinBucket == 0 <= tokens /\ tokens <= CAPACITY * Milli

\* after refills and admissions the bucket holds a fraction of a token and
\* has just refused a call
C2_Witness ==
    /\ 0 < tokens /\ tokens < 1 * Milli
    /\ lastRefill > 0
    /\ \E r \in Live : Refused(r)

\* C3 (SpecRate): starting from the full bucket, at most CAPACITY (4) calls
\* are admitted while no time has passed, the i-th admission (i > 4) does not
\* happen before the refill has made i - 4 whole tokens, and a call not yet
\* admitted is in the polling wait.
C3_BurstWaitsForRefill ==
    /\ \A i \in 1..Len(admitLog) :
           i * Milli <= CAPACITY * Milli + admitLog[i] * RATE_LIMIT
    /\ \A r \in Live : r.admits = 0 => Sleeping(r)

\* a burst of more calls than the bucket holds, all issued at time 0: four
\* are admitted at once and the next one is refused
C3_Witness ==
    /\ now = 0 /\ toIssue = 0
    /\ Len(admitLog) = CAPACITY
    /\ \E r \in Live : Refused(r)

\* C4 (SpecRate): in any interval of 1 second at most 4 calls are admitted.
C4_AtMostFourPerSecond ==
    \A i, j \in 1..Len(admitLog) :
        (i <= j /\ admitLog[j] - admitLog[i] < 1000) => j - i + 1 <= RATE_LIMIT

\* C5 (Spec): a call is admitted once, holds its slot through every attempt
\* and backoff sleep, and runs releaseSlot exactly once, when it ends, however
\* it ends.
C5_ReleasedExactlyOnce ==
    \A r \in Live :
        /\ Sleeping(r) => r.admits = 0 /\ r.releases = 0
        /\ r.pc \in Held => r.admits = 1 /\ r.releases = 0
        /\ r.pc = "done" => r.admits = 1 /\ r.releases = 1

\* a call that ended by throwing after its last retry has released once
C5_Witness ==
    \E r \in Live :
        /\ r.pc = "done" /\ ~r.ok /\ r.retries = maxRetries
        /\ r.releases = 1 /\ inFlight = 0

\* C6 (Spec): a status that is neither 2xx nor 429 nor 5xx ends the call at
\* once: no call backs off from such a response.
NonRetryable(o) ==
    /\ o.kind = "response"
    /\ ~Ok(o.status) /\ o.status # 429
    /\ ~(o.status >= 500 /\ o.status < 600)
C6_NonRetryableNotRetried ==
    \A r \in Live : r.pc = "backoff" => ~NonRetryable(r.last)

\* C7 (Spec): when every failed attempt so far was a 429 without retry-after,
\* the wait before the n-th retry is 500 * 2^(n-1) ms, the call does not fail
\* before the fourth 429, and a 200 after k of them ends it with the payload
\* after k retries.
C7_PlainRateLimitBackoff ==
    \A r \in Live :
        r.hist = "plain429" =>
            /\ r.pc = "backoff" =>
                   /\ r.retries = r.faults
                   /\ r.waitMs = 500 * Pow2(r.retries - 1)
                   /\ r.rem <= r.waitMs
            /\ (r.pc = "done" /\ r.faults \in 1..maxRetries) =>
                   r.ok /\ r.retries = r.faults /\ r.sent = r.faults + 1

\* three 429 answers, waits of 500, 1000 and 2000 ms, then the payload
C7_Witness ==
    \E r \in Live :
        /\ r.pc = "done" /\ r.ok /\ r.hist = "plain429"
        /\ r.faults = 3 /\ r.retries = 3 /\ now >= 3500

\* C8 (Spec): a call makes at most 4 attempts, never backs off after the
\* fourth, and after four 429 answers it has thrown the error of the 429.
C8_AtMostFourAttempts ==
    \A r \in Live :
        /\ r.sent <= maxRetries + 1
        /\ r.attempt = maxRetries + 1 => r.pc \in {"fetch", "done"}
        /\ (r.hist # "mixed" /\ r.faults = maxRetries + 1) =>
               /\ r.pc = "done" /\ ~r.ok
               /\ r.err = Error("IGDB 429 Too Many Requests", 429)

\* four 429 answers, the call has thrown
C8_Witness ==
    \E r \in Live :
        /\ r.pc = "done" /\ r.hist # "mixed" /\ r.faults = 4 /\ r.sent = 4
        /\ r.err.status = 429

\* C9 (Spec): the wait before the n-th retry is 500 * 2^(n-1) ms after a 5xx
\* and 300 * 2^(n-1) ms after a fetch that threw; in both cases the call ends
\* at the fourth failure and not before.
C9_ServerAndTransportBackoff ==
    \A r \in Live :
        /\ (r.pc = "backoff" /\ r.last.kind = "response"
              /\ r.last.status >= 500 /\ r.last.status < 600) =>
               r.waitMs = 500 * Pow2(r.retries - 1) /\ r.rem <= r.waitMs
        /\ (r.pc = "backoff" /\ r.last.kind = "network") =>
               r.waitMs = 300 * Pow2(r.retries - 1) /\ r.rem <= r.waitMs
        /\ r.pc = "backoff" => r.retries = r.faults /\ r.retries <= maxRetries
        /\ (r.pc = "done" /\ ~r.ok /\ r.faults > 0) => r.faults = maxRetries + 1

\* the third retry after a 5xx waits 2000 ms
C9_Witness ==
    \E r \in Live :
        /\ r.pc = "backoff" /\ r.last.kind = "response" /\ r.last.status = 503
        /\ r.retries = 3 /\ r.waitMs = 2000 /\ r.rem = 2000

\* C10 (Spec): a 429 with retry-after: s before the budget is used up is
\* followed by a wait of s * 1000 ms.
RetryAfterSeconds == {<<Header(<<"2">>), 2>>}
C10_RetryAfterHonoured ==
    \A r \in Live : \A hs \in RetryAfterSeconds :
        (r.last.kind = "response" /\ r.last.status = 429
           /\ r.last.retryAfter = hs[1]) =>
            r.pc = "backoff" /\ r.waitMs = hs[2] * 1000 /\ r.rem <= r.waitMs

\* the first attempt gets 429 with retry-after: 2; the wait is 2000 ms where
\* the exponential value is 500 ms
C10_Witness ==
    \E r \in Live :
        /\ r.pc = "backoff" /\ r.attempt = 1
        /\ r.last = Response(429, Header(<<"2">>), FALSE)
        /\ r.waitMs = 2000 /\ r.rem = 2000

\* C11 (SpecToken): whenever getTwitchToken() has returned a token to a call,
\* the token's expiresAt was more than 60 seconds after the time of return.
C11_TokenNotNearExpiry ==
    \A r \in Live : r.token # "none" => r.ttl > 60000

\* C12 (SpecToken): getTwitchToken() returns the cached token without a
\* request to the identity provider exactly when a cached token's expiresAt
\* is more than 60 seconds ahead; otherwise it makes one exchange, and the
\* step that ends the exchange sets the cache to the granted token, with the
\* granted lifetime, and returns that token.
TokenGrants == {o \in LeaseTokenOutcomes : o.kind = "ok"}
Granted(r) == r.pc = "fetch" /\ r.sent = 1 /\ r.treqs = 1
C12_CacheReuseRule ==
    /\ [](\A r \in Live :
             r.check.seen =>
                 /\ r.treqs = IF r.check.cached /\ r.check.ahead > 60000
                              THEN 0 ELSE 1
                 /\ r.treqs = 0 =>
                        r.pc # "tokenFetch" /\ r.token = r.check.token)
    /\ [][\A r \in BagToSet(calls') :
             (Granted(r) /\ CopiesIn(r, calls') > CopiesIn(r, calls)) =>
                 \E o \in TokenGrants :
                     /\ r.token = o.access_token
                     /\ tokenCache' = [token |-> o.access_token,
                                       expiresAt |-> now + o.expires_in * 1000]
           ]_vars

\* one call found no cached token, one reused a token expiring 120 s ahead,
\* one found a token expiring 30 s ahead and was granted a new one
C12_Witness ==
    \E a, b, c \in Live :
        /\ ~a.check.cached /\ a.check.seen /\ a.treqs = 1
        /\ b.check.cached /\ b.check.ahead = 120000 /\ b.treqs = 0
        /\ b.token = "t1" /\ b.sent = 1
        /\ c.check.cached /\ c.check.ahead = 30000 /\ c.treqs = 1
        /\ c.token # "none" /\ c.token = tokenCache.token

\* C13 (SpecToken): without credentials a call fails with the credentials
\* error after no request at all; a call whose exchange the identity provider
\* rejects fails after one request to the identity provider and none to the
\* upstream, without a retry, and the step that fails it leaves tokenCache
\* as it was.
CredentialsError == Error("Missing Twitch credentials", 0)
TokenRequestFailed(r) == r.pc = "done" /\ r.err.msg = "Twitch token error"
Answered == BagToSet(responses)
Awaiting == {r.req : r \in Live} \ {NoRequest}
JustAnswered(a) == CopiesIn(a, responses') > CopiesIn(a, responses)
SameKey(a, b) ==
    /\ a.req.body.mode = "trending" /\ b.req.body.mode = "trending"
    /\ a.req.body.limit = b.req.body.limit
    /\ a.req.body.offset = b.req.body.offset

\* C14 (SpecTrending): of the trending requests with one limit and offset
\* that are answered with the list, no two that arrive within 60 seconds of
\* each other have both called igdb() (two such requests make one upstream
\* call in total), and one that has not called igdb() arrived less than 60
\* seconds after one that has (so a request more than 60 seconds after the
\* only earlier call makes a second call).
Listed(a) == a.req.body.mode = "trending" /\ a.response.status = 200
Called(a) == Len(a.req.queries) = 1
C14_OneUpstreamCallPerMinute ==
    \A a \in Answered :
        Listed(a) =>
            /\ \A b \in Answered :
                   (/\ Listed(b) /\ SameKey(a, b)
                    /\ a # b \/ CopiesIn(a, responses) > 1
                    /\ a.req.at <= b.req.at
                    /\ b.req.at - a.req.at < 60000) =>
                       ~(Called(a) /\ Called(b))
            /\ ~Called(a) =>
                   \E b \in Answered :
                       /\ Listed(b) /\ SameKey(a, b) /\ Called(b)
                       /\ b.req.at <= a.req.at
                       /\ a.req.at - b.req.at < 60000

\* C15 (SpecInput): a request whose body has no known mode or violates the
\* schema of its mode is answered 400 with an error, igdb() is never called
\* for it, and the step that answers it changes neither the bucket, the
\* in-flight count, the token cache, the calls in progress nor the trending
\* cache.
C15_InvalidInputRejected ==
    /\ [](/\ \A a \in Answered :
                 a.req.body \in InvalidBodies =>
                     /\ a.response.status = 400
                     /\ a.response.kind = "error"
                     /\ a.req.queries = <<>>
           /\ \A q \in Awaiting : q.body \notin InvalidBodies)
    /\ [][\A a \in BagToSet(responses') :
             (JustAnswered(a) /\ a.req.body \in InvalidBodies) =>
                 UNCHANGED <<tokens, lastRefill, inFlight, tokenCache, calls,
                             trendingCache, admitLog>>]_vars

\* a trending request with limit 51 has been answered 400 and the gateway is
\* as it was after loading
C15_Witness ==
    /\ \E a \in Answered :
           /\ a.req.body = Body("trending", JUndefined, NoArray, JNum(51),
                                JUndefined, TRUE)
           /\ a.response.status = 400
    /\ tokens = CAPACITY * Milli /\ inFlight = 0 /\ calls = EmptyBag
    /\ tokenCache = NoToken /\ trendingCache = EmptyMap

\* C16 (SpecInput): a schema-valid bulk request none of whose ids is a
\* positive number is answered 200 with the empty list, igdb() is never
\* called for it, and the step that answers it changes neither the bucket,
\* the in-flight count nor the calls in progress.
C16_EmptyBulkNoUpstream ==
    /\ [](/\ \A a \in Answered :
                 a.req.body \in EmptyBulkBodies =>
                     /\ a.response.status = 200
                     /\ a.response.kind = "list"
                     /\ a.response.data = <<>>
                     /\ a.req.queries = <<>>
           /\ \A q \in Awaiting : q.body \notin EmptyBulkBodies)
    /\ [][\A a \in BagToSet(responses') :
             (JustAnswered(a) /\ a.req.body \in EmptyBulkBodies) =>
                 UNCHANGED <<tokens, lastRefill, inFlight, tokenCache,
                             calls>>]_vars

\* the bulk request for the ids -1, 0, -1 has been answered with the empty
\* list and the bucket is full
C16_Witness ==
    /\ \E a \in Answered :
           /\ a.req.body.mode = "bulk"
           /\ a.req.body.ids = JArray(<<JNum(-1), JNum(0), JNum(-1)>>)
           /\ a.response = Json("list", <<>>, "s-maxage=3600")
    /\ tokens = CAPACITY * Milli /\ inFlight = 0 /\ calls = EmptyBag

\* C17 (SpecRecommend): when the source game of a recommend request has no
\* or an empty similar_games list and a nonempty genres list, the request's
\* second query is the genre query, and it never queries the popularity
\* primitives.
RequestsSeen == Awaiting \cup {a.req : a \in Answered}
SourceOf(q) == q.answers[1][1]
HasSource(q) ==
    q.body.mode = "recommend" /\ q.answers # <<>> /\ q.answers[1] # <<>>
C17_GenreBranchBeforePrimitives ==
    \A q \in RequestsSeen :
        (/\ HasSource(q)
         /\ SourceOf(q).similar_games.items = <<>>
         /\ SourceOf(q).genres.array
         /\ SourceOf(q).genres.items # <<>>) =>
            /\ Len(q.queries) >= 2
            /\ q.queries[2].endpoint = "games"
            /\ q.queries[2].where = "genres = (ids) & cover != null"
            /\ q.queries[2].except = q.body.id
            /\ \A i \in 1..Len(q.queries) :
                   q.queries[i].endpoint # "popularity_primitives"

\* C18 (SpecRecommend): the answer of the primitive branch holds games that
\* the bulk fetch returned, no id twice, in the order in which their ids
\* first occur in the feed, and it holds a game for every id among the first
\* `limit` distinct positive ids of the feed for which the bulk fetch
\* returned a game.
InPrimitiveBranch(a) ==
    /\ a.req.stage = "games" /\ a.response.status = 200
    /\ Len(a.req.answers) = 3
FirstAt(feed, id) ==
    CHOOSE k \in 1..Len(feed) :
        /\ feed[k].game_id = id
        /\ \A j \in 1..(k - 1) : feed[j].game_id # id
FeedIds(feed) ==
    {feed[k].game_id : k \in {j \in 1..Len(feed) :
                                 /\ feed[j].game_id.t = "number"
                                 /\ feed[j].game_id.n > 0}}
RankIn(feed, id) ==
    Cardinality({other \in FeedIds(feed) :
                    FirstAt(feed, other) < FirstAt(feed, id)})
LimitOf(a) ==
    IF a.req.body.limit = JUndefined THEN 12 ELSE a.req.body.limit.n
C18_PrimitiveFeedOrder ==
    \A a \in Answered :
        InPrimitiveBranch(a) =>
            LET feed == a.req.answers[2]
                games == a.req.answers[3]
                out == a.response.data
                wanted == {id \in FeedIds(feed) : RankIn(feed, id) < LimitOf(a)}
            IN  /\ \A i \in 1..Len(out) :
                       /\ out[i] \in Range(games)
                       /\ out[i].id \in wanted
                /\ \A i, j \in 1..Len(out) :
                       i < j => FirstAt(feed, out[i].id)
                                  < FirstAt(feed, out[j].id)
                /\ \A g \in Range(games) :
                       g.id \in wanted =>
                           \E i \in 1..Len(out) : out[i].id = g.id

\* the feed 30, 10, 30, 0, 20 and the bulk fetch returning 10, 20, 30: the
\* answer is 30, 10, 20
C18_Witness ==
    \E a \in Answered :
        /\ InPrimitiveBranch(a)
        /\ Len(a.req.answers[2]) = 5
        /\ a.req.answers[3] = <<Game(10, NoArray, NoArray),
                                Game(20, NoArray, NoArray),
                                Game(30, NoArray, NoArray)>>
        /\ a.response.data = <<Game(30, NoArray, NoArray),
                               Game(10, NoArray, NoArray),
                               Game(20, NoArray, NoArray)>>

\* C19 (SpecRecommend): a detail or recommend request whose lookup returned
\* no game is answered null with status 404 after that one query, and no
\* handler goes on to another query after an empty lookup.
C19_MissingGameIs404 ==
    /\ \A a \in Answered :
           (a.req.answers # <<>> /\ a.req.answers[1] = <<>>) =>
               /\ a.response.status = 404
               /\ a.response.kind = "null"
               /\ Len(a.req.queries) = 1
    /\ \A q \in Awaiting : q.answers # <<>> => q.answers[1] # <<>>

\* a recommend request has been answered 404 after its source lookup
C19_Witness ==
    \E a \in Answered :
        /\ a.req.body.mode = "recommend" /\ a.req.answers = <<(<<>>)>>
        /\ a.response.status = 404 /\ Len(a.req.queries) = 1

\* C20 (SpecErrors): a request with invalid input is answered 400, one whose
\* game is missing 404, and one whose igdb() call threw (429 or 5xx after the
\* last retry, a failed fetch, a token failure) is answered with an error
\* whose status is not 400.
C20_StatusReflectsFailure ==
    \A a \in Answered :
        /\ ~Valid(a.req.body) => a.response.status = 400
        /\ (a.req.answers # <<>> /\ a.req.answers[1] = <<>>
              /\ a.req.body.mode = "detail") => a.response.status = 404
        /\ (a.response.kind = "error" /\ a.req.queries # <<>>) =>
               a.response.status # 400

\* C21 (SpecRecommend): the similar_games member of a detail answer is a list
\* of positive whole numbers in which no number occurs twice, and it is the
\* empty list when the upstream's similar_games is no array.
DetailAnswered(a) ==
    /\ a.req.body.mode = "detail" /\ a.response.status = 200
    /\ a.response.kind = "item"
C21_DetailSimilarDeduplicated ==
    \A a \in Answered :
        DetailAnswered(a) =>
            LET upstream == a.req.answers[1][1].similar_games
                out == a.response.data[1].similar_games
            IN  /\ out.array
                /\ \A i \in 1..Len(out.items) :
                       /\ out.items[i].t = "number" /\ out.items[i].whole
                       /\ out.items[i].n > 0
                /\ \A i, j \in 1..Len(out.items) :
                       out.items[i] = out.items[j] => i = j
                /\ ~upstream.array => out.items = <<>>

\* C22 (SpecImage): formatIGDBImage returns the empty string for a missing
\* url (none, or the empty string); for a protocol-relative or https image
\* url and every size it returns the https url of the same image whose size
\* segment is the size asked for; and applied to its own result with the same
\* size it returns that result.
C22_ImageFormatIdempotent ==
    image.runs >= 1 =>
        /\ image.url \in MissingUrls => image.out = <<>>
        /\ \A proto \in {<<"/", "/">>, HttpsProto}, size \in UpstreamSizes,
              name \in ImageNames :
               image.url = Text(ImageUrl(proto, size, name)) =>
                   /\ image.out = ImageUrl(HttpsProto, image.size, name)
                   /\ StartsWith(image.out, HttpsProto)
        /\ image.runs >= 2 => image.out = image.prev

\* the protocol-relative thumbnail of shot_1.jpg has been formatted twice for
\* t_1080p: only the size segment, not the "t_1" of the name, was replaced
C22_Witness ==
    /\ image.runs = 2
    /\ image.url = Text(ImageUrl(<<"/", "/">>, <<"t", "_", "t", "h", "u", "m", "b">>, <<"s", "h", "o", "t", "_", "1", ".", "j", "p", "g">>))
    /\ image.size = <<"t", "_", "1", "0", "8", "0", "p">>
    /\ image.out = ImageUrl(HttpsProto, <<"t", "_", "1", "0", "8", "0", "p">>, <<"s", "h", "o", "t", "_", "1", ".", "j", "p", "g">>)
    /\ image.prev = image.out

\* how the upstream reads a string that opens before position i of text: a
\* backslash takes the character after it literally, and the first double
\* quote not taken so closes the string (0: the string is never closed)
RECURSIVE StringEnd(_, _)
StringEnd(text, i) ==
    IF i > Len(text) THEN 0
    ELSE IF text[i] = "\\" THEN StringEnd(text, i + 2)
    ELSE IF text[i] = "\"" THEN i
    ELSE StringEnd(text, i + 1)

\* C24 (SpecSearch): in the query built for a valid term, the search string
\* opened before the term is closed by the double quote the handler writes
\* after the term, not earlier and not later, and the query holds the clause
\* where cover != null.
C24_SearchTermStaysQuoted ==
    search.built =>
        /\ StringEnd(search.q.text, 3)
              = 3 + Len(EscapeQuotes(search.term))
        /\ \E i \in 1..Len(search.q.text) :
               search.q.text[i] = "where cover != null;"

\* C23 (SpecLive): whenever a call waits in waitForSlot, a time comes at
\* which no call waits there: every waiting call is admitted.
C23_WaitersAdmitted ==
    (\E r \in Live : Sleeping(r)) ~> (\A r \in Live : ~Sleeping(r))

\* every call has been issued and admitted, more calls than the bucket holds
\* and than the ceiling lets in at once, and the last of them holds its slot
C23_Witness ==
    /\ toIssue = 0
    /\ BagCardinality(calls) = LiveCalls
    /\ LiveCalls > MAX_INFLIGHT
    /\ \A r \in Live : r.admits = 1
    /\ inFlight = 1

\* the calls of a bag that waitForSlot has admitted
AdmittedIn(bag) ==
    BagCardinality([r \in {x \in BagToSet(bag) : x.admits = 1} |-> bag[r]])
JustRefused ==
    \E r \in BagToSet(calls') :
        Refused(r) /\ CopiesIn(r, calls') > CopiesIn(r, calls)

\* C25 (Spec): a call is admitted at most once and makes no attempt before
\* it is; the step that admits a call takes one token from the refilled
\* bucket; every other step (an attempt, a retry, the release of the slot on
\* return or throw, the passing of time) leaves the bucket as it is, except a
\* refused admission check, which only refills it.
C25_OneTokenPerCall ==
    /\ [](\A r \in Live : r.admits <= 1 /\ (r.sent > 0 => r.admits = 1))
    /\ [][LET b == refillTokens(tokens, lastRefill, now)
              n == AdmittedIn(calls') - AdmittedIn(calls)
          IN  /\ n \in {0, 1}
              /\ n = 1 => tokens' = b.tokens - 1 * Milli
              /\ n = 0 => \/ tokens' = tokens
                          \/ JustRefused /\ tokens' = b.tokens
         ]_vars

\* a call has thrown after four attempts and released its slot: the bucket
\* is one token short of full
C25_Witness ==
    /\ \E r \in Live :
           r.pc = "done" /\ ~r.ok /\ r.sent = maxRetries + 1 /\ r.admits = 1
    /\ toIssue = NumCalls - 1
    /\ inFlight = 0
    /\ tokens = CAPACITY * Milli - 1 * Milli

\* the trending cache with the entry of answer a stored under a's key
KeyOf(a) == CacheKey(Parse(a.req.body).limit, Parse(a.req.body).offset)
WithEntryOf(cache, a) ==
    [k \in DOMAIN cache \cup {KeyOf(a)} |->
        IF k = KeyOf(a)
        THEN [data |-> a.response.data, expiresAt |-> a.req.at + TRENDING_TTL]
        ELSE cache[k]]

\* C26 (SpecCache): the trending cache changes only in the step that answers
\* a trending request with the list its igdb() call has returned, and then
\* only by the entry of that request's key; the step that answers a request
\* whose igdb() call failed leaves the cache as it is; and the step that
\* answers a request from the cache calls no igdb() and leaves the bucket,
\* the in-flight count and the calls in progress as they are.
C26_CacheOnlyAfterSuccess ==
    /\ [](\A a \in Answered :
             (Listed(a) /\ ~Called(a)) => a.req.queries = <<>>)
    /\ [][/\ trendingCache' # trendingCache =>
                 \E a \in BagToSet(responses') :
                     /\ JustAnswered(a) /\ Listed(a) /\ Called(a)
                     /\ \E r \in Live :
                            Returned(r) /\ r.ok /\ a.req.answers = <<r.data>>
                     /\ trendingCache' = WithEntryOf(trendingCache, a)
          /\ \A a \in BagToSet(responses') :
                 (JustAnswered(a) /\ a.response.kind = "error") =>
                     UNCHANGED trendingCache
          /\ \A a \in BagToSet(responses') :
                 (JustAnswered(a) /\ Listed(a) /\ ~Called(a)) =>
                     UNCHANGED <<tokens, lastRefill, inFlight, calls,
                                 tokenCache, trendingCache>>
         ]_vars

\* one request has stored its list, a later one for the other key has failed
\* after four attempts, and the cache holds the entry of the first alone
C26_Witness ==
    \E a, b \in Answered :
        /\ Listed(a) /\ Called(a)
        /\ b.req.body.mode = "trending" /\ b.response.kind = "error"
        /\ b.response.error.status = 503
        /\ KeyOf(a) # KeyOf(b) /\ a.req.at < b.req.at
        /\ trendingCache = WithEntryOf(EmptyMap, a)

\* C27 (SpecToken): calls that find no usable cached token each make their
\* own exchange; tokenCache changes only in the step that ends a successful
\* exchange, and then it holds the token of that exchange with that
\* exchange's lifetime counted from that step, which is also the token the
\* call of that exchange gets: the cache never pairs the token of one
\* exchange with the expiry of another.
NewlyGranted(r) == Granted(r) /\ CopiesIn(r, calls') > CopiesIn(r, calls)
GrantOf(o, t) ==
    [token |-> o.access_token, expiresAt |-> t + o.expires_in * 1000]
C27_TokenCacheNeverMixed ==
    /\ [](tokenCache # NoToken =>
             \E o \in TokenGrants :
                 /\ tokenCache.expiresAt - o.expires_in * 1000 \in 0..now
                 /\ tokenCache
                       = GrantOf(o, tokenCache.expiresAt - o.expires_in * 1000))
    /\ [][/\ tokenCache' # tokenCache =>
                 \E o \in TokenGrants : \E r \in BagToSet(calls') :
                     /\ NewlyGranted(r)
                     /\ r.token = o.access_token
                     /\ r.ttl = o.expires_in * 1000
                     /\ tokenCache' = GrantOf(o, now)
          /\ \A r \in BagToSet(calls') :
                 NewlyGranted(r) =>
                     /\ tokenCache'.token = r.token
                     /\ tokenCache'.expiresAt = now + r.ttl
         ]_vars

\* two calls found the cache empty and each made its own exchange; one got
\* t1, the other t2 later, and the cache holds t2 with the lifetime of t2
C27_Witness ==
    \E a, b \in Live :
        /\ a.check.seen /\ ~a.check.cached /\ a.treqs = 1 /\ a.token = "t1"
        /\ b.check.seen /\ ~b.check.cached /\ b.treqs = 1 /\ b.token = "t2"
        /\ b.pc = "fetch"
        /\ tokenCache = [token |-> "t2", expiresAt |-> now + 30000]
        /\ now > 0

\* the calls that hold a slot: admitted by waitForSlot, releaseSlot not yet
\* run
HoldingSlot ==
    BagCardinality([r \in {x \in Live : x.admits = 1 /\ x.releases = 0} |->
                       calls[r]])

\* C28 (SpecAdmit): in every reachable state inFlight is the number of calls
\* admitted by waitForSlot that have not run releaseSlot (so it is 0 when no
\* call is active), and every run of releaseSlot finds inFlight at 1 or more
\* and lowers it by exactly 1: the clamp at 0 never acts.
C28_InFlightCountsHeldSlots ==
    /\ [](inFlight = HoldingSlot)
    /\ [][(\E r \in BagToSet(calls') :
               r.releases = 1 /\ CopiesIn(r, calls') > CopiesIn(r, calls)) =>
              inFlight >= 1 /\ inFlight' = inFlight - 1]_vars

\* all the calls have come and gone, some of them by a token failure: the
\* counter is back at 0
C28_Witness ==
    /\ toIssue = 0
    /\ BagCardinality(calls) = AdmitCalls
    /\ \A r \in Live : r.pc = "done" /\ r.releases = 1
    /\ \E r \in Live : ~r.ok
    /\ \E r \in Live : r.ok
    /\ inFlight = 0

\* C29 (SpecTrending): a step that stores a trending cache entry under a key
\* that holds one does not lower the key's expiresAt, and no entry is stored
\* with an expiresAt that is before the time at which it is stored.
C29_CacheExpiryNeverDecreases ==
    [][\A k \in DOMAIN trendingCache' :
          (k \notin DOMAIN trendingCache
             \/ trendingCache'[k] # trendingCache[k]) =>
              /\ trendingCache'[k].expiresAt >= now
              /\ k \in DOMAIN trendingCache =>
                     trendingCache'[k].expiresAt >= trendingCache[k].expiresAt
      ]_vars

\* C30 (SpecRate): of the admissions in the order in which they happen, any
\* run of n consecutive ones spans a time T (in ms) with
\* n <= CAPACITY + RATE_LIMIT * T / 1000.
C30_AdmissionsWithinBucketRate ==
    \A i, j \in 1..Len(admitLog) :
        i <= j =>
            (j - i + 1) * Milli
                <= CAPACITY * Milli
                     + RATE_LIMIT * (admitLog[j] - admitLog[i])

\* four calls admitted at time 0 and a fifth as soon as the refill allows,
\* 300 ms later (1.2 tokens): five admissions within 300 ms, with the bound
\* at 5.2
C30_Witness ==
    /\ Len(admitLog) = CAPACITY + 1
    /\ admitLog[CAPACITY] = 0
    /\ admitLog[CAPACITY + 1] = 300

====
